---- MODULE Spec2Model ----
(***************************************************************************)
(* A model of bevy_fixed_viewport (src/src/lib.rs): the two detectors      *)
(* emit_camera_sync_event and emit_window_sync_event, and sync_viewport,   *)
(* which resolves every SyncEvent to a window and a list of cameras and    *)
(* writes the fitted viewport into each of them.                           *)
(*                                                                         *)
(* f32 values are modelled as exact fractions [n, d] (d > 0) plus the two  *)
(* non-finite results a division by zero gives (+inf, NaN); `as u32` is    *)
(* truncation toward zero that saturates at 0.  Within the sizes used here *)
(* every product and quotient is far below 2^23, so for a ratio that f32   *)
(* holds exactly (1, 2, 1/2, 3/2, ...) the truncated results are those of  *)
(* the f32 computation; a ratio such as 1/3 or 16/9 stands for the exact   *)
(* fraction, not for the f32 value nearest to it.                          *)
(***************************************************************************)
EXTENDS Integers, Sequences, FiniteSets, TLC

\* Bounds of the model.
MaxDim == 4
MaxRatio == 3
MaxHostOps == 2
MaxTicks == 2

WindowEntities == {"w1", "w2"}
CameraEntities == {"c1", "c2", "c3"}

\* Physical window sizes: every size up to MaxDim in each direction (0 included:
\* a minimized window), and three display sizes.
Dims == 0..MaxDim
PhysicalSizes == (Dims \X Dims) \cup {<<800, 800>>, <<1000, 1000>>, <<1920, 1080>>}

\* The sizes the host resizes a window to while the app runs.
ResizeSizes == {<<2, 3>>, <<3, 0>>, <<800, 800>>}

\* FixedViewport.aspect_ratio: the positive fractions i/j in lowest terms, and 16/9
\* (examples/example.rs 21).
Ratio(i, j) == [k |-> "fin", n |-> i, d |-> j]
AspectRatios ==
    ({Ratio(i, j) : i \in 1..MaxRatio, j \in 1..MaxRatio}
       \ {Ratio(i * m, j * m) : i \in 1..MaxRatio, j \in 1..MaxRatio, m \in 2..MaxRatio})
      \cup {Ratio(16, 9)}

\* The ratios the host sets while the app runs.
EditRatios == {Ratio(1, 1), Ratio(2, 1)}

\* Camera.target: RenderTarget::Window(WindowRef::Primary),
\* RenderTarget::Window(WindowRef::Entity(e)), or another kind of target.
RenderTargets ==
    {[kind |-> "Primary", entity |-> "none"], [kind |-> "Image", entity |-> "none"]}
      \cup {[kind |-> "Entity", entity |-> w] : w \in WindowEntities}

\* SyncEvent::Camera(entity) and SyncEvent::Window(entity).
Camera(e) == [kind |-> "Camera", entity |-> e]
Window(e) == [kind |-> "Window", entity |-> e]

\* Camera.viewport: None, or Some(Viewport { physical_position, physical_size }).
NoViewport == [some |-> FALSE, physical_position |-> <<0, 0>>, physical_size |-> <<0, 0>>]
Viewport(x, y, w, h) ==
    [some |-> TRUE, physical_position |-> <<x, y>>, physical_size |-> <<w, h>>]

VARIABLES
    windows,             \* window entity -> [exists, width, height, primary]
    cameras,             \* camera entity -> [hasCamera, aspect_ratio, target, viewport]
    changed,             \* entities matched by Changed<FixedViewport> at the next run
    resize_events,       \* unread WindowResized events (their windows)
    scale_factor_events, \* unread WindowScaleFactorChanged events (their windows)
    sync_events,         \* SyncEvents not yet read by sync_viewport
    pc,                  \* "Update" (host at work), "PostUpdate", "Idle" (tick over)
    ran,                 \* systems of the PostUpdate schedule that ran this tick
    tick,                \* ticks started
    hostOps,             \* host operations performed
    mutated,             \* history: the changed set when the tick started
    tickEmitted,         \* history: SyncEvents the detectors sent this tick
    hostDone,            \* history: what the host did before the tick: per camera
                         \*          its aspect-ratio writes, per window its events
    before,              \* history: cameras when sync_viewport last started
    log                  \* history: per event read by the last sync_viewport,
                         \*          the window and cameras it resolved to, and the writes

vars == <<windows, cameras, changed, resize_events, scale_factor_events, sync_events,
          pc, ran, tick, hostOps, mutated, tickEmitted, hostDone, before, log>>

------------------------------------------------------------------------------
\* f32 arithmetic (lib.rs 130-145) and the `as u32` casts (lib.rs 149-150).

F32(i) == [k |-> "fin", n |-> i, d |-> 1]
F32Div(a, b) ==
    IF b.n = 0
      THEN IF a.n = 0 THEN [k |-> "nan", n |-> 0, d |-> 1]
                      ELSE [k |-> "inf", n |-> 1, d |-> 1]
      ELSE [k |-> "fin", n |-> a.n * b.d, d |-> a.d * b.n]
F32Mul(a, b) == [k |-> "fin", n |-> a.n * b.n, d |-> a.d * b.d]
F32Sub(a, b) == [k |-> "fin", n |-> a.n * b.d - b.n * a.d, d |-> a.d * b.d]
F32Gt(a, b) ==
    CASE a.k = "nan" \/ b.k = "nan" -> FALSE
      [] a.k = "inf" -> b.k # "inf"
      [] b.k = "inf" -> FALSE
      [] OTHER -> a.n * b.d > b.n * a.d
AsU32Rounding(a) == IF a.n < 0 THEN 0 ELSE (2 * a.n + a.d) \div (2 * a.d)
AsU32(a) == IF a.n < 0 THEN 0 ELSE a.n \div a.d

\* `/ 2.` (lib.rs 141, 144).
HalfOmitted(a) == a
Half(a) == F32Div(a, F32(2))

\* The surface extent the fit reads: window.physical_width/height (lib.rs 130-131).
SurfaceExtentFromViewport(cam, win) ==
    IF cam.viewport.some THEN cam.viewport.physical_size ELSE <<win.width, win.height>>
SurfaceExtent(cam, win) == <<win.width, win.height>>

\* The comparison that picks the branch (lib.rs 139).
WiderThanFlipped(window_ratio, aspect_ratio) == F32Gt(aspect_ratio, window_ratio)
WiderOrEqual(window_ratio, aspect_ratio) ==
    F32Gt(window_ratio, aspect_ratio) \/ window_ratio = aspect_ratio
WiderThan(window_ratio, aspect_ratio) == F32Gt(window_ratio, aspect_ratio)

\* The body of the loop over the resolved cameras (lib.rs 130-152).
FitViewport(extent, aspect_ratio) ==
    LET window_width  == F32(extent[1])
        window_height == F32(extent[2])
        window_ratio  == F32Div(window_width, window_height)
    IN  IF WiderThan(window_ratio, aspect_ratio)
          THEN LET viewport_width == F32Mul(window_height, aspect_ratio)
                   viewport_x == F32Sub(Half(window_width), Half(viewport_width))
               IN  Viewport(AsU32(viewport_x), AsU32(F32(0)),
                            AsU32(viewport_width), AsU32(window_height))
          ELSE LET viewport_height == F32Div(window_width, aspect_ratio)
                   viewport_y == F32Sub(Half(window_height), Half(viewport_height))
               IN  Viewport(AsU32(F32(0)), AsU32(viewport_y),
                            AsU32(window_width), AsU32(viewport_height))

------------------------------------------------------------------------------
\* Resolution of one SyncEvent (lib.rs 71-126).

Dropped == [ok |-> FALSE, window |-> "none", cameras |-> {}]

\* window_query.iter().filter(|(_, primary_window)| primary_window.is_some())
PrimaryWindows(ws) == {w \in WindowEntities : ws[w].exists /\ ws[w].primary}

\* Itertools::exactly_one (lib.rs 81).
AtLeastOne(S) == S # {}
ExactlyOne(S) == Cardinality(S) = 1

\* The windows the camera's target resolves to (lib.rs 75-92): one, or none.
TargetWindow(target, ws) ==
    CASE target.kind = "Primary" ->
            IF ExactlyOne(PrimaryWindows(ws))
              THEN {CHOOSE w \in PrimaryWindows(ws) : TRUE} ELSE {}
      [] target.kind = "Entity" ->
            IF target.entity \in WindowEntities /\ ws[target.entity].exists
              THEN {target.entity} ELSE {}
      [] OTHER -> {}

\* SyncEvent::Camera(entity) (lib.rs 73-96).
ResolveCamera(cams, ws, entity) ==
    IF ~cams[entity].hasCamera THEN Dropped
    ELSE LET t == TargetWindow(cams[entity].target, ws)
         IN  IF t = {} THEN Dropped
             ELSE [ok |-> TRUE, window |-> CHOOSE w \in t : TRUE, cameras |-> {entity}]

\* The filter_map over camera_query (lib.rs 110-122).
MatchesWindowNoPrimary(target, entity, primary_window) ==
    target.kind = "Entity" /\ target.entity = entity
MatchesWindowAnyPrimary(target, entity, primary_window) ==
    CASE target.kind = "Primary" -> TRUE
      [] target.kind = "Entity" -> target.entity = entity
      [] OTHER -> FALSE
MatchesWindow(target, entity, primary_window) ==
    CASE target.kind = "Primary" -> primary_window
      [] target.kind = "Entity" -> target.entity = entity
      [] OTHER -> FALSE

\* SyncEvent::Window(entity) (lib.rs 98-125).
ResolveWindow(cams, ws, entity) ==
    IF ~ws[entity].exists THEN Dropped
    ELSE [ok |-> TRUE, window |-> entity,
          cameras |-> {c \in CameraEntities :
                          /\ cams[c].hasCamera
                          /\ MatchesWindow(cams[c].target, entity, ws[entity].primary)}]

Resolve(cams, ws, event) ==
    IF event.kind = "Camera" THEN ResolveCamera(cams, ws, event.entity)
                             ELSE ResolveWindow(cams, ws, event.entity)

\* The viewport written for camera c of a resolved event (lib.rs 128-153).
Fitted(cams, ws, r, c) ==
    FitViewport(SurfaceExtent(cams[c], ws[r.window]), cams[c].aspect_ratio)

ApplyFitEveryCamera(cams, ws, r) ==
    [c \in CameraEntities |->
        IF r.ok /\ cams[c].hasCamera
          THEN [cams[c] EXCEPT !.viewport = Fitted(cams, ws, r, c)]
          ELSE cams[c]]
ApplyFit(cams, ws, r) ==
    [c \in CameraEntities |->
        IF c \in r.cameras THEN [cams[c] EXCEPT !.viewport = Fitted(cams, ws, r, c)]
                           ELSE cams[c]]

\* History of one iteration of the event loop.
LogEntry(cams, ws, event, r) ==
    [event |-> event, window |-> r.window, cameras |-> r.cameras,
     writes |-> {[camera |-> c, width |-> ws[r.window].width,
                  height |-> ws[r.window].height,
                  aspect_ratio |-> cams[c].aspect_ratio,
                  before |-> cams[c].viewport,
                  viewport |-> Fitted(cams, ws, r, c)] : c \in r.cameras}]

\* The same loop with `break` in place of `continue`.
RECURSIVE ReadEventsUntilDrop(_, _, _, _)
ReadEventsUntilDrop(cams, ws, events, lg) ==
    IF events = <<>> THEN [cameras |-> cams, log |-> lg]
    ELSE LET r == Resolve(cams, ws, Head(events))
         IN  IF ~r.ok THEN [cameras |-> cams, log |-> lg]
             ELSE ReadEventsUntilDrop(ApplyFit(cams, ws, r), ws, Tail(events),
                                      Append(lg, LogEntry(cams, ws, Head(events), r)))

\* `for event in sync_events.read()` (lib.rs 69-154): the events in order, each
\* resolved against the cameras as the earlier events left them.
RECURSIVE ReadEvents(_, _, _, _)
ReadEvents(cams, ws, events, lg) ==
    IF events = <<>> THEN [cameras |-> cams, log |-> lg]
    ELSE LET r == Resolve(cams, ws, Head(events))
         IN  ReadEvents(ApplyFit(cams, ws, r), ws, Tail(events),
                        Append(lg, LogEntry(cams, ws, Head(events), r)))

\* What the EventReader leaves unread once read() has been iterated (lib.rs 65, 69).
UnreadKeepsAll(events) == events
Unread(events) == <<>>

------------------------------------------------------------------------------
\* The PostUpdate schedule (lib.rs 13-20).

Systems == {"emit_camera_sync_event", "emit_window_sync_event", "sync_viewport"}

\* .chain(): sync_viewport runs after both detectors; the detectors are unordered.
Unchained(system, done) == TRUE
Chained(system, done) ==
    system = "sync_viewport" =>
        {"emit_camera_sync_event", "emit_window_sync_event"} \subseteq done

\* A system runs once per tick; the tick is over when all three have run.
RunSystem(system) ==
    /\ pc = "PostUpdate"
    /\ system \notin ran
    /\ Chained(system, ran)
    /\ ran' = (IF ran \cup {system} = Systems THEN {} ELSE ran \cup {system})
    /\ pc' = (IF ran \cup {system} = Systems THEN "Idle" ELSE "PostUpdate")

\* The orders in which a query may yield the entities of S.
Orders(S) ==
    {s \in [1..Cardinality(S) -> S] : \A x \in S : \E i \in 1..Cardinality(S) : s[i] = x}

\* Query<Entity, Changed<FixedViewport>> (lib.rs 41).
ChangedQueryEmpty(chg) == {}
ChangedQueryUnfiltered(chg) == CameraEntities
ChangedQuery(chg) == chg

------------------------------------------------------------------------------
\* States after the app is built and before the first PostUpdate: no viewport
\* computed yet, every FixedViewport just added (Changed<FixedViewport> matches
\* added components).

EntityTarget(w) == [kind |-> "Entity", entity |-> w]
PrimaryTarget == [kind |-> "Primary", entity |-> "none"]

\* The number of occurrences of x in seq.
Count(seq, x) == Cardinality({i \in 1..Len(seq) : seq[i] = x})

\* Nothing written or notified: what the detectors see once they have read everything.
NothingDone ==
    [edit |-> [c \in CameraEntities |-> 0],
     resize |-> [w \in WindowEntities |-> 0],
     scale |-> [w \in WindowEntities |-> 0]]

\* What the host did since the last tick ended.
DoneSoFar == IF pc = "Idle" THEN NothingDone ELSE hostDone

InitRest ==
    /\ changed = CameraEntities
    /\ hostDone = [edit |-> [c \in CameraEntities |-> 0],
                   resize |-> [w \in WindowEntities |-> Count(resize_events, w)],
                   scale |-> [w \in WindowEntities |-> Count(scale_factor_events, w)]]
    /\ sync_events = <<>>
    /\ pc = "Update"
    /\ ran = {}
    /\ tick = 0
    /\ hostOps = 0
    /\ mutated = {}
    /\ tickEmitted = <<>>
    /\ before = cameras
    /\ log = <<>>

\* A running app: both windows open at 800x800, any primary flags; c1 renders to
\* the primary window, c2 to w1 (with or without a Camera component), c3 to w2 or
\* to an image.
Init ==
    /\ windows \in [WindowEntities -> [exists : {TRUE}, width : {800}, height : {800},
                                       primary : BOOLEAN]]
    /\ cameras \in
         {cs \in [CameraEntities -> [hasCamera : BOOLEAN, aspect_ratio : {Ratio(1, 1)},
                                     target : RenderTargets, viewport : {NoViewport}]] :
             /\ cs["c1"].hasCamera /\ cs["c1"].target = PrimaryTarget
             /\ cs["c2"].target = EntityTarget("w1")
             /\ cs["c3"].hasCamera /\ cs["c3"].target \in {EntityTarget("w2"),
                                                          [kind |-> "Image", entity |-> "none"]}}
    /\ resize_events = <<>>
    /\ scale_factor_events = <<>>
    /\ InitRest

\* Any window size and any aspect ratios: w1 is the one primary window, c1 renders
\* to the primary window, c2 to w1, c3 to w2.
InitFit ==
    /\ \E size \in PhysicalSizes :
         windows = [w \in WindowEntities |->
                      IF w = "w1"
                        THEN [exists |-> TRUE, width |-> size[1], height |-> size[2],
                              primary |-> TRUE]
                        ELSE [exists |-> TRUE, width |-> 800, height |-> 800,
                              primary |-> FALSE]]
    /\ \E a1 \in AspectRatios, a2 \in AspectRatios :
         cameras = [c \in CameraEntities |->
                      [hasCamera |-> TRUE,
                       aspect_ratio |-> CASE c = "c1" -> a1 [] c = "c2" -> a2
                                          [] OTHER -> Ratio(1, 1),
                       target |-> CASE c = "c1" -> PrimaryTarget
                                    [] c = "c2" -> EntityTarget("w1")
                                    [] OTHER -> EntityTarget("w2"),
                       viewport |-> NoViewport]]
    /\ resize_events = <<>>
    /\ scale_factor_events = <<>>
    /\ InitRest

\* Any association of cameras and windows: w1 open or already despawned, any primary
\* flags, any render targets, c2 with or without a Camera component, and window
\* events sent before the first PostUpdate.
InitResolve ==
    /\ windows \in [WindowEntities -> [exists : BOOLEAN, width : {800}, height : {800},
                                       primary : BOOLEAN]]
    /\ windows["w2"].exists
    /\ cameras \in
         {cs \in [CameraEntities -> [hasCamera : BOOLEAN, aspect_ratio : {Ratio(2, 1)},
                                     target : RenderTargets, viewport : {NoViewport}]] :
             cs["c1"].hasCamera /\ cs["c3"].hasCamera}
    /\ resize_events \in {<<>>, <<"w1">>, <<"w2">>}
    /\ scale_factor_events \in {<<>>, <<"w1">>}
    /\ InitRest

------------------------------------------------------------------------------
\* The host, between ticks.

HostStep ==
    /\ pc \in {"Idle", "Update"}
    /\ tick < MaxTicks
    /\ hostOps < MaxHostOps
    /\ hostOps' = hostOps + 1
    /\ pc' = "Update"
    /\ UNCHANGED <<sync_events, ran, tick, mutated, tickEmitted, before, log>>

\* The window is resized: its physical size changes and a WindowResized is sent.
WindowResized(w, size) ==
    /\ HostStep
    /\ windows[w].exists
    /\ windows' = [windows EXCEPT ![w].width = size[1], ![w].height = size[2]]
    /\ resize_events' = Append(resize_events, w)
    /\ hostDone' = [DoneSoFar EXCEPT !.resize[w] = @ + 1]
    /\ UNCHANGED <<cameras, changed, scale_factor_events>>

\* The window's scale factor changes: its physical size changes (or stays, when the
\* size chosen is the one it has) and a WindowScaleFactorChanged is sent.
WindowScaleFactorChanged(w, size) ==
    /\ HostStep
    /\ windows[w].exists
    /\ windows' = [windows EXCEPT ![w].width = size[1], ![w].height = size[2]]
    /\ scale_factor_events' = Append(scale_factor_events, w)
    /\ hostDone' = [DoneSoFar EXCEPT !.scale[w] = @ + 1]
    /\ UNCHANGED <<cameras, changed, resize_events>>

\* The host writes FixedViewport.aspect_ratio (examples/example.rs 50-52).
SetAspectRatio(c, a) ==
    /\ HostStep
    /\ cameras' = [cameras EXCEPT ![c].aspect_ratio = a]
    /\ changed' = changed \cup {c}
    /\ hostDone' = [DoneSoFar EXCEPT !.edit[c] = @ + 1]
    /\ UNCHANGED <<windows, resize_events, scale_factor_events>>

\* The PostUpdate schedule of the next tick starts.
StartPostUpdate ==
    /\ pc \in {"Idle", "Update"}
    /\ tick < MaxTicks
    /\ pc' = "PostUpdate"
    /\ tick' = tick + 1
    /\ mutated' = changed
    /\ tickEmitted' = <<>>
    /\ log' = <<>>
    /\ hostDone' = DoneSoFar
    /\ UNCHANGED <<windows, cameras, changed, resize_events, scale_factor_events,
                   sync_events, ran, hostOps, before>>

------------------------------------------------------------------------------
\* The systems (lib.rs 40-47, 50-61, 64-155).

emit_camera_sync_event ==
    /\ RunSystem("emit_camera_sync_event")
    /\ \E order \in Orders(ChangedQuery(changed)) :
         LET sent == [i \in 1..Len(order) |-> Camera(order[i])]
         IN  /\ sync_events' = sync_events \o sent
             /\ tickEmitted' = tickEmitted \o sent
    /\ changed' = {}
    /\ UNCHANGED <<windows, cameras, resize_events, scale_factor_events, tick, hostOps,
                   mutated, hostDone, before, log>>

\* The sequence without the elements that occurred earlier in it.
RECURSIVE Deduplicated(_)
Deduplicated(seq) ==
    IF seq = <<>> THEN <<>>
    ELSE LET front == Deduplicated(SubSeq(seq, 1, Len(seq) - 1))
         IN  IF Count(front, seq[Len(seq)]) > 0 THEN front
                                                ELSE Append(front, seq[Len(seq)])

\* The events the two loops send (lib.rs 55-60): one per WindowResized, then one per
\* WindowScaleFactorChanged.
WindowSignalsDeduplicated(resized, rescaled) ==
    Deduplicated([i \in 1..Len(resized) |-> Window(resized[i])]
                   \o [i \in 1..Len(rescaled) |-> Window(rescaled[i])])
WindowSignalsResizedOnly(resized, rescaled) ==
    [i \in 1..Len(resized) |-> Window(resized[i])]
WindowSignals(resized, rescaled) ==
    [i \in 1..Len(resized) |-> Window(resized[i])]
      \o [i \in 1..Len(rescaled) |-> Window(rescaled[i])]

emit_window_sync_event ==
    /\ RunSystem("emit_window_sync_event")
    /\ LET sent == WindowSignals(resize_events, scale_factor_events)
       IN  /\ sync_events' = sync_events \o sent
           /\ tickEmitted' = tickEmitted \o sent
    /\ resize_events' = <<>>
    /\ scale_factor_events' = <<>>
    /\ UNCHANGED <<windows, cameras, changed, tick, hostOps, mutated, hostDone, before,
                   log>>

sync_viewport ==
    /\ RunSystem("sync_viewport")
    /\ LET r == ReadEvents(cameras, windows, sync_events, <<>>)
       IN  /\ cameras' = r.cameras
           /\ log' = r.log
    /\ before' = cameras
    /\ sync_events' = Unread(sync_events)
    /\ UNCHANGED <<windows, changed, resize_events, scale_factor_events, tick, hostOps,
                   mutated, tickEmitted, hostDone>>

\* The app with its host.
Next ==
    \/ \E w \in WindowEntities, size \in ResizeSizes : WindowResized(w, size)
    \/ \E w \in WindowEntities, size \in ResizeSizes : WindowScaleFactorChanged(w, size)
    \/ \E c \in CameraEntities, a \in EditRatios : SetAspectRatio(c, a)
    \/ StartPostUpdate
    \/ emit_camera_sync_event
    \/ emit_window_sync_event
    \/ sync_viewport

Spec == Init /\ [][Next]_vars

\* The ticks alone, from the states before the first PostUpdate.
NextTick ==
    \/ StartPostUpdate
    \/ emit_camera_sync_event
    \/ emit_window_sync_event
    \/ sync_viewport

SpecFit == InitFit /\ [][NextTick]_vars

SpecResolve == InitResolve /\ [][NextTick]_vars

\* The tick is over: every system of the schedule has run, the host has not acted yet.
TickEnd == pc = "Idle"

------------------------------------------------------------------------------
\* Properties.

\* The events the last sync_viewport read, in the order it read them.
LogEvents == [i \in 1..Len(log) |-> log[i].event]

\* Every write of the last sync_viewport.
Writes == UNION {log[i].writes : i \in 1..Len(log)}

\* The fit of section 4.1 with truncation toward zero, for W, H > 0.
ReferenceFit(W, H, a) ==
    IF W * a.d > H * a.n
      THEN Viewport((W * a.d - H * a.n) \div (2 * a.d), 0, (H * a.n) \div a.d, H)
      ELSE Viewport(0, (H * a.n - W * a.d) \div (2 * a.n), W, (W * a.d) \div a.n)

\* C1: for a surface W x H with W, H > 0 and a ratio a > 0, every rectangle
\* (x, y, w, h) written has 0 <= x, 0 <= y, x + w <= W, y + h <= H, and w / h is a
\* up to the truncation of the fitted side: h = H and w = trunc(a * h), or w = W
\* and h = trunc(w / a).
C1_WrittenRectangleFits ==
    \A wr \in Writes :
        (wr.width > 0 /\ wr.height > 0) =>
            LET x == wr.viewport.physical_position[1]
                y == wr.viewport.physical_position[2]
                w == wr.viewport.physical_size[1]
                h == wr.viewport.physical_size[2]
                a == wr.aspect_ratio
            IN  /\ 0 <= x /\ 0 <= y
                /\ x + w <= wr.width
                /\ y + h <= wr.height
                /\ \/ h = wr.height /\ w * a.d <= a.n * h /\ a.n * h < (w + 1) * a.d
                   \/ w = wr.width /\ h * a.n <= w * a.d /\ w * a.d < (h + 1) * a.n

\* A 4x3 surface fitted to 1/2: the width 1.5 is truncated to 1, the offset 1.25 to 1.
C1_Witness ==
    \E wr \in Writes :
        /\ wr.width = 4 /\ wr.height = 3 /\ wr.aspect_ratio = Ratio(1, 2)
        /\ wr.viewport = Viewport(1, 0, 1, 3)

\* C2: at the end of every tick, the viewport of every camera that has one lies
\* within the current pixel bounds of the window its render target resolves to.
C2_ViewportWithinSurface ==
    TickEnd =>
        \A c \in CameraEntities :
            cameras[c].viewport.some =>
                \A s \in TargetWindow(cameras[c].target, windows) :
                    /\ cameras[c].viewport.physical_position[1]
                         + cameras[c].viewport.physical_size[1] <= windows[s].width
                    /\ cameras[c].viewport.physical_position[2]
                         + cameras[c].viewport.physical_size[2] <= windows[s].height

\* The primary window was resized from 800x800 to 2x3 and c1 followed it in the
\* second tick.
C2_Witness ==
    /\ TickEnd /\ tick = 2
    /\ TargetWindow(cameras["c1"].target, windows) = {"w1"}
    /\ windows["w1"].width = 2 /\ windows["w1"].height = 3
    /\ before["c1"].viewport = Viewport(0, 0, 800, 800)
    /\ cameras["c1"].viewport.some
    /\ cameras["c1"].viewport.physical_size[1] <= 2

\* C3: a pair whose window has physical width 0 or physical height 0 is skipped:
\* nothing is written for it.
C3_ZeroSurfaceSkipped ==
    \A wr \in Writes : wr.width > 0 /\ wr.height > 0

\* C4: while two or more windows carry the primary flag, a tick leaves the viewport
\* of every camera whose target is the primary window as it was.
C4_AmbiguousPrimaryUntouched ==
    (TickEnd /\ Cardinality(PrimaryWindows(windows)) >= 2) =>
        \A c \in CameraEntities :
            cameras[c].target = PrimaryTarget =>
                cameras[c].viewport = before[c].viewport

\* C5: after a tick that follows a mutation of a camera's aspect ratio, its viewport
\* is the fit of the window its target resolves to (of positive size) to the new
\* ratio; on an 800x800 window the ratio 1 gives (0,0,800,800) and the ratio 2
\* gives (0,200,800,400).
C5_AspectEditPropagates ==
    TickEnd =>
        \A c \in mutated :
            cameras[c].hasCamera =>
                \A s \in TargetWindow(cameras[c].target, windows) :
                    (windows[s].width > 0 /\ windows[s].height > 0) =>
                        /\ cameras[c].viewport =
                             ReferenceFit(windows[s].width, windows[s].height,
                                          cameras[c].aspect_ratio)
                        /\ (windows[s].width = 800 /\ windows[s].height = 800) =>
                             /\ cameras[c].aspect_ratio = Ratio(1, 1) =>
                                  cameras[c].viewport = Viewport(0, 0, 800, 800)
                             /\ cameras[c].aspect_ratio = Ratio(2, 1) =>
                                  cameras[c].viewport = Viewport(0, 200, 800, 400)

\* c1 went from ratio 1 to ratio 2 on an 800x800 window between two ticks.
C5_Witness ==
    /\ TickEnd /\ tick = 2
    /\ "c1" \in mutated
    /\ cameras["c1"].aspect_ratio = Ratio(2, 1)
    /\ \E s \in TargetWindow(cameras["c1"].target, windows) :
         windows[s].width = 800 /\ windows[s].height = 800
    /\ before["c1"].viewport = Viewport(0, 0, 800, 800)
    /\ cameras["c1"].viewport = Viewport(0, 200, 800, 400)

\* C6: a Window(s) event for an existing window s resolves to exactly the cameras
\* whose target is Entity(s), or is Primary while s carries the primary flag; for
\* a window that does not exist it resolves to none.
C6_WindowEventFanOut ==
    \A i \in 1..Len(log) :
        log[i].event.kind = "Window" =>
            LET s == log[i].event.entity
            IN  IF windows[s].exists
                  THEN /\ log[i].window = s
                       /\ log[i].cameras =
                            {c \in CameraEntities :
                                /\ cameras[c].hasCamera
                                /\ \/ cameras[c].target = EntityTarget(s)
                                   \/ cameras[c].target = PrimaryTarget
                                        /\ windows[s].primary}
                       /\ Cardinality(log[i].writes) = Cardinality(log[i].cameras)
                  ELSE log[i].cameras = {} /\ log[i].writes = {}

\* One Window event of a primary window with two direct cameras and one on the
\* primary target gives three pairs; one for a despawned window gives none.
C6_Witness ==
    /\ \E i \in 1..Len(log) :
         /\ log[i].event.kind = "Window"
         /\ windows[log[i].event.entity].exists
         /\ windows[log[i].event.entity].primary
         /\ Cardinality(log[i].cameras) = 3
         /\ Cardinality({c \in log[i].cameras :
                            cameras[c].target = EntityTarget(log[i].event.entity)}) = 2
         /\ Cardinality({c \in log[i].cameras : cameras[c].target = PrimaryTarget}) = 1
    /\ \E i \in 1..Len(log) :
         /\ log[i].event.kind = "Window"
         /\ ~windows[log[i].event.entity].exists
         /\ log[i].cameras = {}

\* C7: a Camera(v) event resolves to the one pair (v, s) when v is in the camera
\* query and its target is Primary with exactly one primary window s, or Entity(s)
\* with s existing; otherwise it resolves to no pair and writes nothing.
C7_CameraEventResolution ==
    \A i \in 1..Len(log) :
        log[i].event.kind = "Camera" =>
            LET v == log[i].event.entity
                t == cameras[v].target
                P == {w \in WindowEntities : windows[w].exists /\ windows[w].primary}
            IN  CASE cameras[v].hasCamera /\ t = PrimaryTarget /\ Cardinality(P) = 1 ->
                        /\ log[i].cameras = {v}
                        /\ log[i].window \in P
                        /\ Cardinality(log[i].writes) = 1
                  [] cameras[v].hasCamera /\ t.kind = "Entity" /\ windows[t.entity].exists ->
                        /\ log[i].cameras = {v}
                        /\ log[i].window = t.entity
                        /\ Cardinality(log[i].writes) = 1
                  [] OTHER ->
                        /\ log[i].cameras = {}
                        /\ log[i].writes = {}

\* One tick with a Camera event that resolves through the primary flag, one dropped
\* for a missing Camera component and one dropped for a despawned window.
C7_Witness ==
    /\ TickEnd
    /\ \E i \in 1..Len(log) :
         /\ log[i].event.kind = "Camera"
         /\ cameras[log[i].event.entity].target = PrimaryTarget
         /\ log[i].cameras = {log[i].event.entity}
    /\ \E i \in 1..Len(log) :
         /\ log[i].event.kind = "Camera"
         /\ ~cameras[log[i].event.entity].hasCamera
         /\ log[i].cameras = {}
    /\ \E i \in 1..Len(log) :
         /\ log[i].event.kind = "Camera"
         /\ cameras[log[i].event.entity].hasCamera
         /\ cameras[log[i].event.entity].target = EntityTarget("w1")
         /\ ~windows["w1"].exists
         /\ log[i].cameras = {}

\* C8: sync_viewport never runs before a detector of the same tick, and at the end
\* of a tick it has read exactly the events the detectors sent in that tick, each
\* once and in order, and none is left unread.
C8_SignalsConsumedInTick ==
    /\ "sync_viewport" \in ran =>
         {"emit_camera_sync_event", "emit_window_sync_event"} \subseteq ran
    /\ TickEnd => (sync_events = <<>> /\ LogEvents = tickEmitted)

\* The second tick read a Camera event and a Window event sent in it.
C8_Witness ==
    /\ TickEnd /\ tick = 2
    /\ \E i, j \in 1..Len(tickEmitted) :
         tickEmitted[i].kind = "Camera" /\ tickEmitted[j].kind = "Window"
    /\ LogEvents = tickEmitted
    /\ sync_events = <<>>

\* C9: a tick in which no detector sent an event writes nothing: sync_viewport reads
\* no event and every viewport is as before.
C9_EmptyTickWritesNothing ==
    (TickEnd /\ tickEmitted = <<>>) => (log = <<>> /\ cameras = before)

\* The second tick had no event, after a first tick that wrote a viewport.
C9_Witness ==
    /\ TickEnd /\ tick = 2
    /\ tickEmitted = <<>>
    /\ \E c \in CameraEntities : cameras[c].viewport.some

\* The events without the occurrences of e after its first one.
RECURSIVE KeepFirst(_, _, _)
KeepFirst(events, e, seen) ==
    IF events = <<>> THEN <<>>
    ELSE IF Head(events) = e
           THEN IF seen THEN KeepFirst(Tail(events), e, TRUE)
                        ELSE <<e>> \o KeepFirst(Tail(events), e, TRUE)
           ELSE <<Head(events)>> \o KeepFirst(Tail(events), e, seen)

\* C10: a tick that reads two or more Window events for the same window leaves every
\* camera with the viewport the same tick would leave with only the first of them.
C10_RedundantWindowEvents ==
    TickEnd =>
        \A s \in WindowEntities :
            Cardinality({i \in 1..Len(log) : log[i].event = Window(s)}) >= 2 =>
                cameras = ReadEvents(before, windows,
                                     KeepFirst(LogEvents, Window(s), FALSE), <<>>).cameras

\* Two Window events for w1 in one tick, the second rewriting a viewport the first
\* had written.
C10_Witness ==
    /\ TickEnd
    /\ \E i, j \in 1..Len(log) :
         /\ i < j
         /\ log[i].event = Window("w1") /\ log[j].event = Window("w1")
         /\ \E wr \in log[j].writes :
              /\ wr.before.some
              /\ wr.viewport = wr.before
              /\ cameras[wr.camera].viewport = wr.viewport

\* The cameras in a pair resolved by the last sync_viewport.
Paired == UNION {log[i].cameras : i \in 1..Len(log)}

\* C11: no step of a tick changes a window (existence, size, primary flag) or a
\* camera's Camera component, aspect ratio or render target, and a camera that is in
\* no pair resolved in the tick keeps its viewport.
C11_OnlyViewportsWritten ==
    [][(pc = "PostUpdate" \/ pc' = "PostUpdate") =>
          /\ windows' = windows
          /\ \A c \in CameraEntities :
               /\ cameras'[c].hasCamera = cameras[c].hasCamera
               /\ cameras'[c].aspect_ratio = cameras[c].aspect_ratio
               /\ cameras'[c].target = cameras[c].target
               /\ c \notin Paired' => cameras'[c].viewport = cameras[c].viewport]_vars

\* A tick that rewrote the viewport of one camera and left alone a camera of the
\* query that was in no pair.
C11_Witness ==
    /\ TickEnd
    /\ \E c \in Paired : cameras[c].viewport # before[c].viewport
    /\ \E c \in CameraEntities \ Paired :
         cameras[c].hasCamera /\ cameras[c].viewport = before[c].viewport

\* C12: for W, H > 0 the written rectangle is the reference fit truncated toward
\* zero: if W/H > a then (trunc((W - H*a)/2), 0, trunc(H*a), H), otherwise
\* (0, trunc((H - W/a)/2), W, trunc(W/a)); a 1000x1000 window with ratio 2 gives
\* (0, 250, 1000, 500).
C12_WrittenEqualsReferenceFit ==
    \A wr \in Writes :
        (wr.width > 0 /\ wr.height > 0) =>
            /\ wr.viewport = ReferenceFit(wr.width, wr.height, wr.aspect_ratio)
            /\ (wr.width = 1000 /\ wr.height = 1000 /\ wr.aspect_ratio = Ratio(2, 1)) =>
                 wr.viewport = Viewport(0, 250, 1000, 500)

\* The 1000x1000 window fitted to 2, and to 3/2: the height 666.67 is cut to 666 and
\* the offset 166.67 to 166.
C12_Witness ==
    \E wr \in Writes, wr2 \in Writes :
        /\ wr.width = 1000 /\ wr.height = 1000 /\ wr.aspect_ratio = Ratio(2, 1)
        /\ wr.viewport = Viewport(0, 250, 1000, 500)
        /\ wr2.width = 1000 /\ wr2.aspect_ratio = Ratio(3, 2)
        /\ wr2.viewport = Viewport(0, 166, 1000, 666)

\* C13 as stated: for every written rectangle (W, H > 0) exactly one of x and y is 0,
\* and the other is (surface dimension - fitted dimension) / 2 within one pixel.
C13_ExactlyOneOffsetZero ==
    \A wr \in Writes :
        (wr.width > 0 /\ wr.height > 0) =>
            LET x == wr.viewport.physical_position[1]
                y == wr.viewport.physical_position[2]
                w == wr.viewport.physical_size[1]
                h == wr.viewport.physical_size[2]
            IN  \/ x = 0 /\ y # 0 /\ (wr.height - h) - 2 * y \in 0..2
                \/ y = 0 /\ x # 0 /\ (wr.width - w) - 2 * x \in 0..2

\* C13 amended: for every written rectangle (W, H > 0) at least one of x and y is 0
\* (both when the ratios are equal or the margin is below one pixel), and the other
\* is (surface dimension - fitted dimension) / 2 within one pixel: x = 0 and
\* 0 <= (H - h) - 2y <= 2, or y = 0 and 0 <= (W - w) - 2x <= 2.
C13_AtLeastOneOffsetZero ==
    \A wr \in Writes :
        (wr.width > 0 /\ wr.height > 0) =>
            LET x == wr.viewport.physical_position[1]
                y == wr.viewport.physical_position[2]
                w == wr.viewport.physical_size[1]
                h == wr.viewport.physical_size[2]
            IN  \/ x = 0 /\ w = wr.width /\ (wr.height - h) - 2 * y \in 0..2
                \/ y = 0 /\ h = wr.height /\ (wr.width - w) - 2 * x \in 0..2

\* On a 4x2 window the ratio 1 gives the offset x = 1 and the ratio 2 gives no offset.
C13_Witness ==
    /\ \E wr \in Writes :
         /\ wr.width = 4 /\ wr.height = 2 /\ wr.aspect_ratio = Ratio(1, 1)
         /\ wr.viewport = Viewport(1, 0, 2, 2)
    /\ \E wr \in Writes :
         /\ wr.width = 4 /\ wr.height = 2 /\ wr.aspect_ratio = Ratio(2, 1)
         /\ wr.viewport = Viewport(0, 0, 4, 2)

\* C14: when W/H equals the aspect ratio (W, H > 0) the comparison of lib.rs 139 is
\* false, so the else branch runs, and the rectangle written is (0, 0, W, H).
C14_EqualRatiosFillSurface ==
    \A wr \in Writes :
        (wr.width > 0 /\ wr.height > 0
           /\ wr.width * wr.aspect_ratio.d = wr.height * wr.aspect_ratio.n) =>
            /\ ~WiderThan(F32Div(F32(wr.width), F32(wr.height)), wr.aspect_ratio)
            /\ wr.viewport = Viewport(0, 0, wr.width, wr.height)

\* 1920x1080 fitted to 16/9.
C14_Witness ==
    \E wr \in Writes :
        /\ wr.width = 1920 /\ wr.height = 1080 /\ wr.aspect_ratio = Ratio(16, 9)
        /\ wr.viewport = Viewport(0, 0, 1920, 1080)

\* The sequence without its i-th element.
WithoutIndex(seq, i) == SubSeq(seq, 1, i - 1) \o SubSeq(seq, i + 1, Len(seq))

\* C15: a dropped event does not end the pass: every event sent in the tick is read,
\* and the final cameras are those of the same pass without the dropped event.
C15_DroppedEventSkippedOnly ==
    TickEnd =>
        /\ Len(log) = Len(tickEmitted)
        /\ \A i \in 1..Len(log) :
             log[i].window = "none" =>
                 cameras = ReadEvents(before, windows,
                                      WithoutIndex(tickEmitted, i), <<>>).cameras

\* An event dropped, and a later event of the same tick whose write is the camera's
\* final viewport.
C15_Witness ==
    /\ TickEnd
    /\ \E i, j \in 1..Len(log) :
         /\ i < j
         /\ log[i].window = "none"
         /\ \E wr \in log[j].writes :
              wr.viewport # wr.before /\ cameras[wr.camera].viewport = wr.viewport

\* C16: in a tick the view-change detector sends exactly one Camera(v) for each
\* camera whose FixedViewport was written once or more since the previous tick (or
\* was added before the first tick), and none for any other.
C16_OneCameraEventPerMutatedView ==
    TickEnd =>
        \A c \in CameraEntities :
            Count(tickEmitted, Camera(c)) =
                (IF hostDone.edit[c] >= 1 \/ tick = 1 THEN 1 ELSE 0)

\* In the second tick c1, written twice since the first, got one event and c2, not
\* written, got none.
C16_Witness ==
    /\ TickEnd /\ tick = 2
    /\ hostDone.edit["c1"] = 2 /\ Count(tickEmitted, Camera("c1")) = 1
    /\ hostDone.edit["c2"] = 0 /\ Count(tickEmitted, Camera("c2")) = 0

\* C17: in a tick the surface-change detector sends one Window(s) for every
\* WindowResized and every WindowScaleFactorChanged of s received since the previous
\* tick: k notifications give k events.
C17_OneWindowEventPerNotification ==
    TickEnd =>
        \A w \in WindowEntities :
            Count(tickEmitted, Window(w)) = hostDone.resize[w] + hostDone.scale[w]

\* A resize and a scale-factor change of w1 before the second tick gave two events.
C17_Witness ==
    /\ TickEnd /\ tick = 2
    /\ hostDone.resize["w1"] = 1 /\ hostDone.scale["w1"] = 1
    /\ Count(tickEmitted, Window("w1")) = 2

\* C18: for every state of the entities, camera v is among the cameras a Window(s)
\* event resolves to exactly when a Camera(v) event resolves to the pair (v, s).
C18_ResolutionPathsAgree ==
    \A v \in CameraEntities, s \in WindowEntities :
        (v \in ResolveWindow(cameras, windows, s).cameras)
          <=> (/\ ResolveCamera(cameras, windows, v).ok
               /\ ResolveCamera(cameras, windows, v).window = s)

\* C19: at the end of every tick, every camera of the query whose target resolves to
\* a window of positive size holds the fit of that window's current size to the
\* camera's current aspect ratio (render targets and primary flags fixed, every size
\* change sent as a WindowResized or a WindowScaleFactorChanged).
C19_ViewportsInSync ==
    TickEnd =>
        \A c \in CameraEntities :
            cameras[c].hasCamera =>
                \A s \in TargetWindow(cameras[c].target, windows) :
                    (windows[s].width > 0 /\ windows[s].height > 0) =>
                        cameras[c].viewport =
                            ReferenceFit(windows[s].width, windows[s].height,
                                         cameras[c].aspect_ratio)

\* Before the second tick w1 went to 2x3 by a scale-factor change alone and c2's
\* ratio was set to 2; c2, rendering to w1, follows both.
C19_Witness ==
    /\ TickEnd /\ tick = 2
    /\ hostDone.scale["w1"] = 1 /\ hostDone.resize["w1"] = 0
    /\ hostDone.edit["c2"] = 1
    /\ windows["w1"].width = 2 /\ windows["w1"].height = 3
    /\ cameras["c2"].hasCamera /\ cameras["c2"].aspect_ratio = Ratio(2, 1)
    /\ before["c2"].viewport = Viewport(0, 0, 800, 800)
    /\ cameras["c2"].viewport = Viewport(0, 1, 2, 1)

\* The orderings of the index set S, as sequences.
RECURSIVE Orderings(_)
Orderings(S) ==
    IF S = {} THEN {<<>>}
    ELSE UNION {{<<i>> \o p : p \in Orderings(S \ {i})} : i \in S}

\* C20: the cameras a tick ends with are those the event loop gives for every
\* ordering of the events it read.
C20_OrderIndependent ==
    TickEnd =>
        \A p \in Orderings(1..Len(log)) :
            cameras = ReadEvents(before, windows,
                                 [i \in 1..Len(log) |-> LogEvents[p[i]]], <<>>).cameras

====
